---- MODULE Spec2Model ----
(***************************************************************************)
(* melonJS state manager (me.state): the screen registry, the deferred and *)
(* optionally faded state switch, and the run loop driven by the host's    *)
(* requestAnimationFrame; the physics body (me.Body): its shape list, its *)
(* bounding rectangle and its velocity integration; and the pointer        *)
(* (me.Pointer) that is set from one host input event after another.       *)
(***************************************************************************)
EXTENDS Integers, Sequences, FiniteSets, TLC

(* ------------------------------ bounds -------------------------------- *)
\* most frame requests the host holds at once
MaxPending == 2
\* most deferred (setTimeout) tasks waiting at once
MaxDeferred == 2
\* most viewport fade-in tweens running at once
MaxFades == 1
\* last instant of window.performance.now()
MaxTime == 2
\* most shapes in a body's shape list
MaxShapes == 3
\* largest speed of a body on one axis
MaxSpeed == 2
\* largest distance of a body's ancestor from the origin on one axis
MaxPos == 2

(* ------------------------- program constants -------------------------- *)
LOADING == 0
PLAY == 3
\* the value of _state and of _animFrameId when there is none
NONE == -1

\* the state ids the callers use
States == {LOADING, PLAY}
\* instances of me.ScreenObject, and one object that is none
Screens == {"soA", "soB"}
Objects == Screens \cup {"notAScreen"}
\* so instanceof me.ScreenObject
IsScreenObject(so) == so \in Screens

\* the extra arguments given to change: none, or one
ArgVectors == {<<>>, <<"a">>}
\* the documented fade duration, in milliseconds
DefaultDuration == 1000
\* the durations given to transition
Durations == {0, DefaultDuration}
\* _extraArgs is null or an array
NullArgs == [isNull |-> TRUE, items |-> <<>>]
ArgArray(v) == [isNull |-> FALSE, items |-> v]
\* f.apply(thisArg, args): a null args calls f with no arguments
ApplyArgs(args) == IF args.isNull THEN <<>> ELSE args.items

NoError == [name |-> "none", text |-> "", subject |-> ""]
\* one call made (or one event published) by an operation
Call(f, what, args, n) == [f |-> f, what |-> what, args |-> args, n |-> n]
Did(f) == Call(f, "", <<>>, 0)

VARIABLES
    \* me.state module state
    _state, _animFrameId, _isPaused, _screenObject, _fade,
    _onSwitchComplete, _extraArgs, _pauseTime,
    \* the user-assignable callbacks that are functions
    handlers,
    \* the screen objects that are reset and not destroyed since
    live,
    \* host: pending frame requests, timer queue, running fade-in tweens, clock
    pending, deferred, fadeIns, now,
    \* where the frame callback is: "idle", "update" or "draw"
    pc,
    \* one me.Body object: its fields
    body,
    \* one me.Pointer object: its fields
    pointer

vars == <<_state, _animFrameId, _isPaused, _screenObject, _fade,
          _onSwitchComplete, _extraArgs, _pauseTime, handlers, live,
          pending, deferred, fadeIns, now, pc, body, pointer>>

Handlers == {"onStop", "onPause", "onRestart", "onResume"}

\* the state an operation threads through its statements; trace is what it
\* has called so far, in order, and err what it has thrown
Cur ==
    [state |-> _state, animFrameId |-> _animFrameId, isPaused |-> _isPaused,
     screenObject |-> _screenObject, fade |-> _fade,
     onSwitchComplete |-> _onSwitchComplete, extraArgs |-> _extraArgs,
     pauseTime |-> _pauseTime, pending |-> pending, deferred |-> deferred,
     fadeIns |-> fadeIns, now |-> now, handlers |-> handlers,
     trace |-> <<>>, err |-> NoError]

WithinBounds(s) ==
    /\ Cardinality(s.pending) <= MaxPending
    /\ Len(s.deferred) <= MaxDeferred
    /\ Len(s.fadeIns) <= MaxFades

\* the screen objects that are reset and not destroyed once the calls of
\* the trace, from the i-th on, have been made on them
RECURSIVE LiveAfter(_, _, _)
LiveAfter(l, trace, i) ==
    IF i > Len(trace) THEN l
    ELSE LiveAfter(IF trace[i].f = "reset" THEN l \cup {trace[i].what}
                   ELSE IF trace[i].f = "destroy" THEN l \ {trace[i].what}
                   ELSE l,
                   trace, i + 1)

\* the operation returns (or throws): its effects become the state
Commit(s) ==
    /\ WithinBounds(s)
    /\ _state' = s.state
    /\ _animFrameId' = s.animFrameId
    /\ _isPaused' = s.isPaused
    /\ _screenObject' = s.screenObject
    /\ _fade' = s.fade
    /\ _onSwitchComplete' = s.onSwitchComplete
    /\ _extraArgs' = s.extraArgs
    /\ _pauseTime' = s.pauseTime
    /\ pending' = s.pending
    /\ deferred' = s.deferred
    /\ fadeIns' = s.fadeIns
    /\ live' = LiveAfter(live, s.trace, 1)
    /\ UNCHANGED <<handlers, body, pointer>>

Log(s, c) == [s EXCEPT !.trace = Append(@, c)]

\* throw new <name>(<subject> <text>): the rest of the operation is skipped
Throw(s, name, text, subject) ==
    [s EXCEPT !.err = [name |-> name, text |-> text, subject |-> subject]]

(* ------------------------------- host --------------------------------- *)
\* window.requestAnimationFrame: a handle no pending request has
FreshId(p) == CHOOSE i \in 1..(Cardinality(p) + 1) : i \notin p

requestAnimationFrame(s) ==
    LET id == FreshId(s.pending) IN
    [Log(s, Did("requestAnimationFrame")) EXCEPT
        !.pending = @ \cup {id}, !.animFrameId = id]

\* window.cancelAnimationFrame: drops the request if it is still pending
cancelAnimationFrame(s, id) ==
    [Log(s, Did("cancelAnimationFrame")) EXCEPT !.pending = @ \ {id}]

\* me.utils.function.defer(_switchState, this, state): a zero-delay timer
defer(s, task) == [s EXCEPT !.deferred = Append(@, task)]

\* me.game.viewport.fadeIn(color, duration, onComplete): starts a tween
fadeIn(s, color, duration, task) ==
    [Log(s, Call("fadeIn", color, <<>>, duration)) EXCEPT
        !.fadeIns = Append(@, [duration |-> duration, task |-> task])]

\* me.game.viewport.fadeOut(color, duration)
fadeOut(s, color, duration) == Log(s, Call("fadeOut", color, <<>>, duration))

(* ----------------------------- run loop ------------------------------- *)
isRunning(s) == s.animFrameId # NONE

isPaused(s) == s.isPaused

isCurrent(s, state) == s.state = state

_startRunLoop(s) ==
    LET s1 == Log(s, Did("_startRunLoop")) IN
    IF s1.animFrameId = NONE /\ s1.state # NONE
    THEN requestAnimationFrame(Log(s1, Did("me.timer.reset")))
    ELSE s1

_stopRunLoop(s) ==
    LET s1 == Log(s, Did("_stopRunLoop")) IN
    [cancelAnimationFrame(s1, s1.animFrameId) EXCEPT !.animFrameId = NONE]

\* the end of _renderFrame, once me.game.update and me.game.draw have returned
_renderFrame(s) ==
    IF s.animFrameId # NONE THEN requestAnimationFrame(s) ELSE s

_resumeRunLoop(s) ==
    IF s.isPaused /\ s.state # NONE
    THEN [Log(s, Did("me.timer.reset")) EXCEPT !.isPaused = FALSE]
    ELSE s

_pauseRunLoop(s) == [s EXCEPT !.isPaused = TRUE]

\* if (typeof(onX) === "function") onX()
CallIfFunction(s, h) == IF h \in s.handlers THEN Log(s, Did(h)) ELSE s

\* if (music === true) me.audio.<f>()
Track(s, music, f) == IF music THEN Log(s, Did(f)) ELSE s

Publish(s, event, n) == Log(s, Call("publish", event, <<>>, n))

(* --------------------------- state switch ----------------------------- *)
\* _switchState with the loop restarted before the new screen is reset
_switchState_StartsBeforeReset(s, state) ==
    LET s1 == _stopRunLoop(s)
        s2 == IF s1.state \in DOMAIN s1.screenObject
              THEN Log(s1, Call("destroy", s1.screenObject[s1.state].screen, <<>>, 0))
              ELSE s1
    IN  IF state \in DOMAIN s2.screenObject
        THEN LET s3 == Log([s2 EXCEPT !.state = state], Call("_state", "", <<>>, state))
                 s4 == _startRunLoop(s3)
                 s5 == Log(s4, Call("reset", s4.screenObject[s4.state].screen,
                                    ApplyArgs(s4.extraArgs), 0))
                 s6 == IF s5.onSwitchComplete # "null"
                       THEN fadeOut(Log(s5, Did("_onSwitchComplete")),
                                    s5.fade.color, s5.fade.duration)
                       ELSE s5
             IN  Log(s6, Did("me.game.repaint"))
        ELSE s2

\* _switchState that resets the new screen and leaves _state as it was
_switchState_KeepsState(s, state) ==
    LET s1 == _stopRunLoop(s)
        s2 == IF s1.state \in DOMAIN s1.screenObject
              THEN Log(s1, Call("destroy", s1.screenObject[s1.state].screen, <<>>, 0))
              ELSE s1
    IN  IF state \in DOMAIN s2.screenObject
        THEN LET s4 == Log(s2, Call("reset", s2.screenObject[state].screen,
                                    ApplyArgs(s2.extraArgs), 0))
                 s5 == [requestAnimationFrame(s4) EXCEPT !.state = s.state]
             IN  Log(s5, Did("me.game.repaint"))
        ELSE s2

\* _switchState with the switch-complete callback called before the reset
_switchState_CompletesBeforeReset(s, state) ==
    LET s1 == _stopRunLoop(s)
        s2 == IF s1.state \in DOMAIN s1.screenObject
              THEN Log(s1, Call("destroy", s1.screenObject[s1.state].screen, <<>>, 0))
              ELSE s1
    IN  IF state \in DOMAIN s2.screenObject
        THEN LET s3 == Log([s2 EXCEPT !.state = state], Call("_state", "", <<>>, state))
                 s4 == IF s3.onSwitchComplete # "null"
                       THEN fadeOut(Log(s3, Did("_onSwitchComplete")),
                                    s3.fade.color, s3.fade.duration)
                       ELSE s3
                 s5 == Log(s4, Call("reset", s4.screenObject[s4.state].screen,
                                    ApplyArgs(s4.extraArgs), 0))
                 s6 == _startRunLoop(s5)
             IN  Log(s6, Did("me.game.repaint"))
        ELSE s2

_switchState(s, state) ==
    LET s1 == _stopRunLoop(s)
        s2 == IF s1.state \in DOMAIN s1.screenObject
              THEN Log(s1, Call("destroy", s1.screenObject[s1.state].screen, <<>>, 0))
              ELSE s1
    IN  IF state \in DOMAIN s2.screenObject
        THEN LET s3 == Log([s2 EXCEPT !.state = state], Call("_state", "", <<>>, state))
                 s4 == Log(s3, Call("reset", s3.screenObject[s3.state].screen,
                                    ApplyArgs(s3.extraArgs), 0))
                 s5 == _startRunLoop(s4)
                 s6 == IF s5.onSwitchComplete # "null"
                       THEN fadeOut(Log(s5, Did("_onSwitchComplete")),
                                    s5.fade.color, s5.fade.duration)
                       ELSE s5
             IN  Log(s6, Did("me.game.repaint"))
        ELSE s2

(* ------------------------------ me.state ------------------------------ *)
\* stop without the test for the LOADING state
stop_IgnoresLoading(s, music) ==
    IF isRunning(s)
    THEN LET s1 == Track(_stopRunLoop(s), music, "me.audio.pauseTrack")
             s2 == [s1 EXCEPT !.pauseTime = s1.now]
         IN  CallIfFunction(Publish(s2, "STATE_STOP", 0), "onStop")
    ELSE s

stop(s, music) ==
    IF s.state # LOADING /\ isRunning(s)
    THEN LET s1 == Track(_stopRunLoop(s), music, "me.audio.pauseTrack")
             s2 == [s1 EXCEPT !.pauseTime = s1.now]
         IN  CallIfFunction(Publish(s2, "STATE_STOP", 0), "onStop")
    ELSE s

\* pause that cancels the scheduled frame, as stop does
pause_StopsLoop(s, music) ==
    IF s.state # LOADING /\ ~isPaused(s)
    THEN LET s1 == Track(_stopRunLoop(_pauseRunLoop(s)), music, "me.audio.pauseTrack")
             s2 == [s1 EXCEPT !.pauseTime = s1.now]
         IN  CallIfFunction(Publish(s2, "STATE_PAUSE", 0), "onPause")
    ELSE s

pause(s, music) ==
    IF s.state # LOADING /\ ~isPaused(s)
    THEN LET s1 == Track(_pauseRunLoop(s), music, "me.audio.pauseTrack")
             s2 == [s1 EXCEPT !.pauseTime = s1.now]
         IN  CallIfFunction(Publish(s2, "STATE_PAUSE", 0), "onPause")
    ELSE s

\* restart without the test for a running loop
restart_NoRunningTest(s, music) ==
    LET s1 == Track(_startRunLoop(s), music, "me.audio.resumeTrack")
        s2 == [s1 EXCEPT !.pauseTime = s1.now - @]
        s3 == Log(s2, Did("me.game.repaint"))
    IN  CallIfFunction(Publish(s3, "STATE_RESTART", s3.pauseTime), "onRestart")

restart(s, music) ==
    IF ~isRunning(s)
    THEN LET s1 == Track(_startRunLoop(s), music, "me.audio.resumeTrack")
             s2 == [s1 EXCEPT !.pauseTime = s1.now - @]
             s3 == Log(s2, Did("me.game.repaint"))
         IN  CallIfFunction(Publish(s3, "STATE_RESTART", s3.pauseTime), "onRestart")
    ELSE s

resume(s, music) ==
    IF isPaused(s)
    THEN LET s1 == Track(_resumeRunLoop(s), music, "me.audio.resumeTrack")
             s2 == [s1 EXCEPT !.pauseTime = s1.now - @]
         IN  CallIfFunction(Publish(s2, "STATE_RESUME", s2.pauseTime), "onResume")
    ELSE s

\* set that keeps the transition flag of a state already registered
set_KeepsTransition(s, state, so) ==
    IF ~IsScreenObject(so)
    THEN Throw(s, "me.Error", " is not an instance of me.ScreenObject", so)
    ELSE [s EXCEPT !.screenObject =
            [st \in DOMAIN @ \cup {state} |->
                IF st = state
                THEN [screen |-> so,
                      transition |-> IF state \in DOMAIN @ THEN @[st].transition ELSE TRUE]
                ELSE @[st]]]

set(s, state, so) ==
    IF ~IsScreenObject(so)
    THEN Throw(s, "me.Error", " is not an instance of me.ScreenObject", so)
    ELSE [s EXCEPT !.screenObject =
            [st \in DOMAIN @ \cup {state} |->
                IF st = state THEN [screen |-> so, transition |-> TRUE] ELSE @[st]]]

\* _screenObject[_state].screen: a TypeError when the state has no entry
current(s) ==
    IF s.state \in DOMAIN s.screenObject
    THEN s.screenObject[s.state].screen
    ELSE "TypeError"

transition(s, effect, color, duration) ==
    IF effect = "fade"
    THEN [s EXCEPT !.fade = [color |-> color, duration |-> duration]]
    ELSE s

setTransition(s, state, enable) ==
    IF state \in DOMAIN s.screenObject
    THEN [s EXCEPT !.screenObject[state].transition = enable]
    ELSE Throw(s, "TypeError", "Cannot set property 'transition' of undefined",
               ToString(state))

\* the task handed to defer: _switchState bound to its state (requestedArgs
\* and viaFade record the change call it comes from)
SwitchTask(state, extra, viaFade) ==
    [state |-> state, requestedArgs |-> extra, viaFade |-> viaFade]

\* the onComplete that change hands to fadeIn, switching at once
onFadeInComplete_Synchronous(s, task) == _switchState(s, task.state)

\* the onComplete that change hands to fadeIn: it defers the switch
onFadeInComplete(s, task) == defer(s, task)

\* change with the switch made at once, not deferred
change_Synchronous(s, state, extra) ==
    IF state \notin DOMAIN s.screenObject
    THEN Throw(s, "me.Error", "Undefined ScreenObject for state", ToString(state))
    ELSE IF isCurrent(s, state)
    THEN s
    ELSE _switchState([s EXCEPT !.extraArgs =
                        IF Len(extra) > 0 THEN ArgArray(extra) ELSE NullArgs], state)

\* change without the test for the current state
change_NoCurrentTest(s, state, extra) ==
    IF state \notin DOMAIN s.screenObject
    THEN Throw(s, "me.Error", "Undefined ScreenObject for state", ToString(state))
    ELSE defer([s EXCEPT !.extraArgs =
                    IF Len(extra) > 0 THEN ArgArray(extra) ELSE NullArgs],
               SwitchTask(state, extra, FALSE))

\* change that stores the extra arguments before it looks the state up
change_StoresArgsFirst(s, state, extra) ==
    LET s1 == [s EXCEPT !.extraArgs =
                    IF Len(extra) > 0 THEN ArgArray(extra) ELSE NullArgs]
    IN  IF state \notin DOMAIN s.screenObject
        THEN Throw(s1, "me.Error", "Undefined ScreenObject for state", ToString(state))
        ELSE IF isCurrent(s, state) THEN s
        ELSE defer(s1, SwitchTask(state, extra, FALSE))

change(s, state, extra) ==
    IF state \notin DOMAIN s.screenObject
    THEN Throw(s, "me.Error", "Undefined ScreenObject for state", ToString(state))
    ELSE IF isCurrent(s, state)
    THEN s
    ELSE LET s1 == [s EXCEPT !.extraArgs =
                        IF Len(extra) > 0 THEN ArgArray(extra) ELSE NullArgs]
         IN  IF s1.fade.duration # 0 /\ s1.screenObject[state].transition
             THEN fadeIn([s1 EXCEPT !.onSwitchComplete = "fadeOut"],
                         s1.fade.color, s1.fade.duration,
                         SwitchTask(state, extra, TRUE))
             ELSE defer(s1, SwitchTask(state, extra, FALSE))

(* ------------------------------ me.Body ------------------------------- *)
\* Numbers are whole multiples of one unit of length (and of length per
\* tick); me.timer.tick is a whole number of ticks.

Min(a, b) == IF a < b THEN a ELSE b
Max(a, b) == IF a > b THEN a ELSE b
Abs(a) == IF a < 0 THEN -a ELSE a

Vector2d(x, y) == [x |-> x, y |-> y]
\* a rectangle: its position and its width and height
Rect(x, y, w, h) == [pos |-> Vector2d(x, y), width |-> w, height |-> h]

\* me.Rect.union: the smallest rectangle that holds both
union(r, o) ==
    LET x1 == Min(r.pos.x, o.pos.x)
        y1 == Min(r.pos.y, o.pos.y)
    IN  Rect(x1, y1,
             Max(r.pos.x + r.width, o.pos.x + o.width) - x1,
             Max(r.pos.y + r.height, o.pos.y + o.height) - y1)

\* a shape object: id is its identity, bounds what its getBounds() returns
Shape(id, kind, bounds) == [id |-> id, kind |-> kind, bounds |-> bounds]
getBounds(shape) == shape.bounds
\* the shape objects the caller holds: a polygon, an ellipse and a rectangle
PolyA == Shape(1, "Polygon", Rect(0, 0, 2, 1))
EllipseB == Shape(2, "Ellipse", Rect(-1, 1, 1, 2))
RectR == Shape(3, "Rect", Rect(1, -1, 1, 1))
HeldShapes == {PolyA, EllipseB, RectR}
\* a shape object that was never added to the body
Stranger == Shape(4, "Polygon", Rect(5, 5, 1, 1))
\* what shapes[index] is when the list has no such index
Undefined == Shape(0, "undefined", Rect(0, 0, 0, 0))

\* the identity of a newly created object: one no object in use has
FreshShapeId(shapes) ==
    LET used == {o.id : o \in HeldShapes \cup {Stranger}}
                    \cup {shapes[i].id : i \in 1..Len(shapes)}
    IN  CHOOSE i \in 1..(Cardinality(used) + 1) :
            i \notin used /\ \A j \in 1..(i - 1) : j \in used

\* shape.toPolygon(): a new polygon with the rectangle's corners
toPolygon(shape, shapes) == Shape(FreshShapeId(shapes), "Polygon", shape.bounds)
\* shape.clone(): a new object of the same kind and extent
clone(shape, shapes) == Shape(FreshShapeId(shapes), shape.kind, shape.bounds)

\* new me.Polygon(0, 0, points): its bounds are the bounding box of the points
Polygon(points, shapes) ==
    LET xs == {points[i].x : i \in 1..Len(points)}
        ys == {points[i].y : i \in 1..Len(points)}
        x1 == CHOOSE x \in xs : \A o \in xs : x <= o
        x2 == CHOOSE x \in xs : \A o \in xs : x >= o
        y1 == CHOOSE y \in ys : \A o \in ys : y <= o
        y2 == CHOOSE y \in ys : \A o \in ys : y >= o
    IN  Shape(FreshShapeId(shapes), "Polygon", Rect(x1, y1, x2 - x1, y2 - y1))

\* new me.Ellipse(x, y, w, h): centred on (x, y); w and h are even here
Ellipse(x, y, w, h, shapes) ==
    Shape(FreshShapeId(shapes), "Ellipse", Rect(x - w \div 2, y - h \div 2, w, h))

\* update the body bounding rect from the shapes, then call onBodyUpdate
RECURSIVE unionFrom(_, _, _)
unionFrom(r, shapes, i) ==
    IF i > Len(shapes) THEN r
    ELSE unionFrom(union(r, getBounds(shapes[i])), shapes, i + 1)

\* updateBounds whose loop starts one shape too late
updateBounds_SkipsSecondShape(b) ==
    LET b1 == IF Len(b.shapes) > 0
              THEN LET r == unionFrom(getBounds(b.shapes[1]), b.shapes, 3)
                   IN  [b EXCEPT !.pos = r.pos, !.width = r.width, !.height = r.height]
              ELSE b
    IN  IF b1.onBodyUpdate THEN Log(b1, Did("onBodyUpdate")) ELSE b1

updateBounds(b) ==
    LET b1 == IF Len(b.shapes) > 0
              THEN LET r == unionFrom(getBounds(b.shapes[1]), b.shapes, 2)
                   IN  [b EXCEPT !.pos = r.pos, !.width = r.width, !.height = r.height]
              ELSE b
    IN  IF b1.onBodyUpdate THEN Log(b1, Did("onBodyUpdate")) ELSE b1

addShape(b, shape, batchInsert) ==
    LET b1 == [b EXCEPT !.shapes =
                    Append(@, IF shape.kind = "Rect" THEN toPolygon(shape, @) ELSE shape)]
        b2 == IF batchInsert # TRUE THEN updateBounds(b1) ELSE b1
    IN  [b2 EXCEPT !.ret = Len(b2.shapes)]

\* the flat coordinate list x0, y0, x1, y1, ... (of even length) as points
pointsOf(flat) ==
    [k \in 1..(Len(flat) \div 2) |-> Vector2d(flat[2 * k - 1], flat[2 * k])]

\* for each data[i]: addShape(new me.Polygon(0, 0, points), true)
RECURSIVE addFlatShapes(_, _, _)
addFlatShapes(b, data, i) ==
    IF i > Len(data) THEN b
    ELSE addFlatShapes(addShape(b, Polygon(pointsOf(data[i].shape), b.shapes), TRUE),
                       data, i + 1)

\* data.polygons.forEach: the points are flipped (1 - y) and scaled
RECURSIVE addPolygons(_, _, _, _)
addPolygons(b, polygons, scale, i) ==
    IF i > Len(polygons) THEN b
    ELSE LET points == [k \in 1..Len(polygons[i]) |->
                            Vector2d(polygons[i][k].x * scale,
                                     (1 - polygons[i][k].y) * scale)]
         IN  addPolygons(addShape(b, Polygon(points, b.shapes), TRUE),
                         polygons, scale, i + 1)

\* data.circles.forEach
RECURSIVE addCircles(_, _, _, _)
addCircles(b, circles, scale, i) ==
    IF i > Len(circles) THEN b
    ELSE LET c == circles[i]
         IN  addCircles(addShape(b, Ellipse(c.cx * scale, (1 - c.cy) * scale,
                                            c.r * 2 * scale, c.r * 2 * scale,
                                            b.shapes), TRUE),
                        circles, scale, i + 1)

\* a Physics Editor document: json[id], here the data of the one entry of
\* byId named id, is a list of shapes, each a flat list of coordinates
DocFlat ==
    [isRigid |-> FALSE,
     byId |-> <<[name |-> "banana",
                 data |-> <<[shape |-> <<0, 0, 2, 0, 2, 2>>],
                            [shape |-> <<-1, 0, 0, 1, 0, 0>>]>>]>>,
     rigidBodies |-> <<>>]
\* a Physics Body Editor document: named rigid bodies with an origin,
\* polygons and circles; the second one has no shape at all
DocRigid ==
    [isRigid |-> TRUE,
     byId |-> <<>>,
     rigidBodies |->
        <<[name |-> "banana", origin |-> Vector2d(1, 0),
           polygons |-> <<<<Vector2d(0, 0), Vector2d(1, 0), Vector2d(1, 1)>>>>,
           circles |-> <<[cx |-> 0, cy |-> 2, r |-> 1]>>],
          [name |-> "empty", origin |-> Vector2d(2, 3),
           polygons |-> <<>>, circles |-> <<>>]>>]
Docs == {DocFlat, DocRigid}
ShapeNames == {"banana", "empty", "missing"}
\* the scale argument; 0 stands for an argument that is not given
Scales == {0, 2}

addShapesFromJSON(b, json, id, scale) ==
    LET scale1 == IF scale = 0 THEN 1 ELSE scale
        missing == Throw(b, "Error",
                         "me.Body: Identifier undefined for the given PhysicsEditor JSON object",
                         id)
        done(b1) == LET b2 == updateBounds(b1) IN [b2 EXCEPT !.ret = Len(b2.shapes)]
    IN  IF ~json.isRigid
        THEN LET keyed == {i \in 1..Len(json.byId) : json.byId[i].name = id}
             IN  IF keyed = {}
                 THEN missing
                 ELSE done(addFlatShapes(b, json.byId[CHOOSE i \in keyed : TRUE].data, 1))
        ELSE LET named == {i \in 1..Len(json.rigidBodies) : json.rigidBodies[i].name = id}
             IN  IF named = {}
                 THEN missing
                 ELSE LET data == json.rigidBodies[CHOOSE i \in named : \A j \in named : j <= i]
                          b1 == [b EXCEPT !.pos = Vector2d(data.origin.x * scale1,
                                                           (1 - data.origin.y) * scale1)]
                          b2 == addPolygons(b1, data.polygons, scale1, 1)
                      IN  done(addCircles(b2, data.circles, scale1, 1))

\* shapes[index || 0]
getShape(b, index) ==
    IF index + 1 \in 1..Len(b.shapes) THEN b.shapes[index + 1] ELSE Undefined

\* me.utils.array.remove: the first entry that is this object is spliced out
remove(arr, obj) ==
    LET at == {i \in 1..Len(arr) : arr[i].id = obj.id}
    IN  IF at = {} THEN arr
        ELSE LET i == CHOOSE k \in at : \A j \in at : k <= j
             IN  SubSeq(arr, 1, i - 1) \o SubSeq(arr, i + 1, Len(arr))

\* removeShape that updates the bounds only when it removed a shape
removeShape_KeepsBoundsWhenAbsent(b, shape) ==
    LET b1 == [b EXCEPT !.shapes = remove(@, shape)]
        b2 == IF b1.shapes # b.shapes THEN updateBounds(b1) ELSE b1
    IN  [b2 EXCEPT !.ret = Len(b2.shapes)]

removeShape(b, shape) ==
    LET b1 == [b EXCEPT !.shapes = remove(@, shape)]
        b2 == updateBounds(b1)
    IN  [b2 EXCEPT !.ret = Len(b2.shapes)]

removeShapeAt(b, index) == removeShape(b, getShape(b, index))

\* me.Math.clamp
clamp(x, low, high) == IF x < low THEN low ELSE IF x > high THEN high ELSE x
\* Math.sign
sign(x) == IF x > 0 THEN 1 ELSE IF x < 0 THEN -1 ELSE 0
\* ~~(0.5 + d) || 0 for a whole d: 0.5 + d, truncated towards zero
roundHalf(d) ==
    LET twice == 2 * d + 1
    IN  IF twice >= 0 THEN twice \div 2 ELSE -((-twice) \div 2)

\* applyFriction that reverses a velocity smaller than the friction
applyFriction_Overshoots(b, tick) ==
    LET fx == b.friction.x * tick
        fy == b.friction.y * tick
    IN  [b EXCEPT !.vel = Vector2d(IF b.vel.x < 0 THEN b.vel.x + fx ELSE b.vel.x - fx,
                                   IF b.vel.y < 0 THEN b.vel.y + fy ELSE b.vel.y - fy)]

\* applyFriction that leaves a velocity smaller than the friction as it is
applyFriction_KeepsLowSpeed(b, tick) ==
    LET fx == b.friction.x * tick
        nx == b.vel.x + fx
        x == b.vel.x - fx
        fy == b.friction.y * tick
        ny == b.vel.y + fy
        y == b.vel.y - fy
    IN  [b EXCEPT !.vel = Vector2d(IF nx < 0 THEN nx ELSE IF x > 0 THEN x ELSE b.vel.x,
                                   IF ny < 0 THEN ny ELSE IF y > 0 THEN y ELSE b.vel.y)]

\* applyFriction(vel), called on this.vel, with me.timer.tick = tick
applyFriction(b, tick) ==
    LET fx == b.friction.x * tick
        nx == b.vel.x + fx
        x == b.vel.x - fx
        fy == b.friction.y * tick
        ny == b.vel.y + fy
        y == b.vel.y - fy
    IN  [b EXCEPT !.vel = Vector2d(IF nx < 0 THEN nx ELSE IF x > 0 THEN x ELSE 0,
                                   IF ny < 0 THEN ny ELSE IF y > 0 THEN y ELSE 0)]

\* computeVelocity, "apply gravity (if any)"
applyGravity(b, tick) ==
    IF b.gravity # 0
    THEN LET vy == b.vel.y + b.gravity * tick
             falling == vy * sign(b.gravity) > 0
         IN  [b EXCEPT !.vel.y = vy,
                       !.falling = falling,
                       !.jumping = IF falling THEN FALSE ELSE @]
    ELSE b

\* computeVelocity up to "cap velocity": gravity, then friction if any
uncapped(b, tick) ==
    LET b1 == applyGravity(b, tick)
    IN  IF b1.friction.x # 0 \/ b1.friction.y # 0 THEN applyFriction(b1, tick) ELSE b1

\* computeVelocity, "cap velocity"
cap(b) ==
    [b EXCEPT !.vel.y = IF @ # 0 THEN clamp(@, -b.maxVel.y, b.maxVel.y) ELSE @,
              !.vel.x = IF @ # 0 THEN clamp(@, -b.maxVel.x, b.maxVel.x) ELSE @]

\* computeVelocity that caps the velocity before it applies gravity
computeVelocity_CapsFirst(b, tick) == uncapped(cap(b), tick)

\* computeVelocity that tells falling from the velocity before gravity is
\* added to it
computeVelocity_FallingBeforeGravity(b, tick) ==
    LET b1 == IF b.gravity # 0
              THEN LET falling == b.vel.y * sign(b.gravity) > 0
                   IN  [b EXCEPT !.vel.y = @ + b.gravity * tick,
                                 !.falling = falling,
                                 !.jumping = IF falling THEN FALSE ELSE @]
              ELSE b
    IN  cap(IF b1.friction.x # 0 \/ b1.friction.y # 0 THEN applyFriction(b1, tick) ELSE b1)

\* computeVelocity(vel), called on this.vel, with me.timer.tick = tick
computeVelocity(b, tick) == cap(uncapped(b, tick))

\* update(): ret is whether the resulting velocity differs from 0
update(b, tick) ==
    LET b1 == computeVelocity(b, tick)
        b2 == [b1 EXCEPT !.ancestor.pos = Vector2d(@.x + b1.vel.x, @.y + b1.vel.y)]
    IN  [b2 EXCEPT !.ret = IF b2.vel.x # 0 \/ b2.vel.y # 0 THEN 1 ELSE 0]

\* respondToCollision that sets the falling and jumping flags whatever the
\* overlap is
respondToCollision_AlwaysFlags(b, overlap) ==
    LET b1 == [b EXCEPT !.ancestor.pos = Vector2d(@.x - overlap.x, @.y - overlap.y)]
        b2 == IF overlap.x # 0
              THEN LET vx == roundHalf(b1.vel.x - overlap.x)
                   IN  [b1 EXCEPT !.vel.x = IF b1.bounce > 0 THEN vx * (-b1.bounce) ELSE vx]
              ELSE b1
        b3 == IF overlap.y # 0
              THEN LET vy == roundHalf(b2.vel.y - overlap.y)
                   IN  [b2 EXCEPT !.vel.y = IF b2.bounce > 0 THEN vy * (-b2.bounce) ELSE vy]
              ELSE b2
        dir == IF sign(b3.gravity) # 0 THEN sign(b3.gravity) ELSE 1
    IN  [b3 EXCEPT !.falling = overlap.y >= dir, !.jumping = overlap.y <= -dir]

\* respondToCollision(response), with response.overlapV = overlap
respondToCollision(b, overlap) ==
    LET b1 == [b EXCEPT !.ancestor.pos = Vector2d(@.x - overlap.x, @.y - overlap.y)]
        b2 == IF overlap.x # 0
              THEN LET vx == roundHalf(b1.vel.x - overlap.x)
                   IN  [b1 EXCEPT !.vel.x = IF b1.bounce > 0 THEN vx * (-b1.bounce) ELSE vx]
              ELSE b1
    IN  IF overlap.y # 0
        THEN LET vy == roundHalf(b2.vel.y - overlap.y)
                 dir == IF sign(b2.gravity) # 0 THEN sign(b2.gravity) ELSE 1
             IN  [b2 EXCEPT !.vel.y = IF b2.bounce > 0 THEN vy * (-b2.bounce) ELSE vy,
                            !.falling = overlap.y >= dir,
                            !.jumping = overlap.y <= -dir]
        ELSE b2

\* setMaxVelocity(x, y)
setMaxVelocity(b, x, y) == [b EXCEPT !.maxVel = Vector2d(x, y)]

\* setVelocity that overwrites the acceleration with a zero argument too
setVelocity_OverwritesWithZero(b, x, y) ==
    setMaxVelocity([b EXCEPT !.accel = Vector2d(x, y)], x, y)

\* setVelocity(x, y)
setVelocity(b, x, y) ==
    LET b1 == [b EXCEPT !.accel = Vector2d(IF x # 0 THEN x ELSE @.x,
                                           IF y # 0 THEN y ELSE @.y)]
    IN  setMaxVelocity(b1, x, y)

\* the default of maxVel on each axis
DefaultMaxVel == 1000

\* the size of the ancestor the body is attached to
Parent == [pos |-> Vector2d(0, 0), width |-> 2, height |-> 2]
\* the shapes argument of the constructor: not given, or a list of shapes
NoShapes == [given |-> FALSE, list |-> <<>>]
ShapeList(list) == [given |-> TRUE, list |-> list]

\* for each shapes[s]: addShape(shapes[s].clone(), true)
RECURSIVE addClones(_, _, _)
addClones(b, list, s) ==
    IF s > Len(list) THEN b
    ELSE addClones(addShape(b, clone(list[s], b.shapes), TRUE), list, s + 1)

\* new me.Body(parent, shapes, onBodyUpdate), with me.sys.gravity = gravity;
\* onBodyUpdate is whether the argument is a function
constructor(parent, shapes, onBodyUpdate, gravity) ==
    LET b == [shapes |-> <<>>,
              pos |-> Vector2d(0, 0), width |-> parent.width, height |-> parent.height,
              vel |-> Vector2d(0, 0), accel |-> Vector2d(0, 0),
              friction |-> Vector2d(0, 0), bounce |-> 0,
              maxVel |-> Vector2d(DefaultMaxVel, DefaultMaxVel),
              gravity |-> gravity, falling |-> FALSE, jumping |-> FALSE,
              onBodyUpdate |-> onBodyUpdate, ancestor |-> parent,
              trace |-> <<>>, err |-> NoError, ret |-> 0]
    IN  IF shapes.given THEN updateBounds(addClones(b, shapes.list, 1)) ELSE b

\* the operation has returned: what it called and returned is forgotten
Returned(b) == [b EXCEPT !.trace = <<>>, !.err = NoError, !.ret = 0]


\* me.timer.tick: the ticks elapsed since the last frame
Ticks == {1, 2}
\* me.sys.gravity, the default of the body's gravity
Gravities == {-1, 0, 1}
\* the values the game gives to vel, friction, maxVel and bounce
Vels == (-MaxSpeed)..MaxSpeed
Frictions == {Vector2d(0, 0), Vector2d(1, 1), Vector2d(1, 0), Vector2d(0, 1),
              Vector2d(-1, 0), Vector2d(0, -1)}
MaxVels == {Vector2d(DefaultMaxVel, DefaultMaxVel), Vector2d(1, 1),
            Vector2d(0, 1), Vector2d(-2, -1)}
Bounces == {0, 1}
\* response.overlapV
Overlaps == {Vector2d(x, y) : x \in (-1)..1, y \in (-1)..1}
\* the arguments of setVelocity and setMaxVelocity on one axis
Speeds == {-1, 0, 2}

(* ----------------------------- me.Pointer ----------------------------- *)
\* a number that may be undefined
undefined == [defined |-> FALSE, value |-> 0]
Def(n) == [defined |-> TRUE, value |-> n]
\* v || 0
OrZero(v) == IF v.defined /\ v.value # 0 THEN v.value ELSE 0

\* a host input event; native is whether it is a window.PointerEvent;
\* isPrimary is "true", "false" or "undefined"; width and height are read of
\* a native event only, wheelDelta of a wheel event only
Event(type, native, isPrimary, button, width, height, radiusX, radiusY, deltaX, wheelDelta, wheelDeltaX) ==
    [type |-> type, native |-> native, isPrimary |-> isPrimary, button |-> button,
     width |-> width, height |-> height, radiusX |-> radiusX, radiusY |-> radiusY,
     deltaX |-> deltaX, wheelDelta |-> wheelDelta, wheelDeltaX |-> wheelDeltaX]
\* this.event before the first setEvent
NoEvent ==
    Event("undefined", FALSE, "undefined", undefined, 0, 0, undefined, undefined,
          undefined, 0, undefined)
MouseDown ==
    Event("mousedown", FALSE, "undefined", Def(2), 0, 0, undefined, undefined,
          undefined, 0, undefined)
TouchStart ==
    Event("touchstart", FALSE, "undefined", undefined, 0, 0, Def(1), Def(2),
          undefined, 0, undefined)
PointerDown ==
    Event("pointerdown", TRUE, "false", Def(0), 2, 3, undefined, undefined,
          undefined, 0, undefined)
WheelUp ==
    Event("wheel", FALSE, "undefined", Def(0), 0, 0, undefined, undefined,
          Def(1), 80, undefined)
WheelLeft ==
    Event("wheel", FALSE, "undefined", Def(0), 0, 0, undefined, undefined,
          Def(1), -40, Def(-40))
Events == {MouseDown, TouchStart, PointerDown, WheelUp, WheelLeft}
\* the clientX and clientY arguments
ClientCoords == {0, 2}
\* the pointerId argument
PointerIds == {undefined, Def(0), Def(1), Def(2)}

\* me.device.PointerEvent: the host has pointer events
DevicePointerEvent == TRUE
\* the position of the canvas within the page
CanvasOffset == Vector2d(1, 0)
\* the position of the viewport within the world
ViewportPos == Vector2d(0, 3)
\* the wheel delta of one scroll unit
WheelUnit == 40

\* me.input.globalToLocal(x, y, v)
globalToLocal(x, y) == Vector2d(x - CanvasOffset.x, y - CanvasOffset.y)
\* me.game.viewport.localToWorld(x, y, v)
localToWorld(x, y) == Vector2d(x + ViewportPos.x, y + ViewportPos.y)
\* me.Rect.resize(w, h)
resize(p, w, h) == [p EXCEPT !.width = w, !.height = h]

\* new me.Pointer(x, y, w, h); an argument of 0 is one that is not given
Pointer(x, y, w, h) ==
    [pos |-> Vector2d(IF x # 0 THEN x ELSE 0, IF y # 0 THEN y ELSE 0),
     width |-> IF w # 0 THEN w ELSE 1, height |-> IF h # 0 THEN h ELSE 1,
     event |-> NoEvent, type |-> "undefined", button |-> 0, isPrimary |-> "false",
     clientX |-> undefined, clientY |-> undefined,
     gameX |-> undefined, gameY |-> undefined,
     gameScreenX |-> undefined, gameScreenY |-> undefined,
     gameWorldX |-> undefined, gameWorldY |-> undefined,
     gameLocalX |-> undefined, gameLocalY |-> undefined,
     pointerId |-> undefined,
     \* read before setEvent has assigned them
     isNormalized |-> "undefined",
     deltaMode |-> undefined, deltaX |-> undefined, deltaY |-> undefined]

\* setEvent up to the assignment of pointerId
beforePointerId(p, event, clientX, clientY) ==
    LET p1 == [p EXCEPT !.event = event,
                        !.clientX = Def(IF clientX # 0 THEN clientX ELSE 0),
                        !.clientY = Def(IF clientY # 0 THEN clientY ELSE 0),
                        !.pos = globalToLocal(clientX, clientY),
                        !.isNormalized =
                            IF ~DevicePointerEvent
                                \/ (DevicePointerEvent /\ ~event.native)
                            THEN "true" ELSE "false"]
    IN  IF event.type = "wheel"
        THEN [p1 EXCEPT !.deltaMode = Def(1),
                        !.deltaX = IF event.wheelDeltaX.defined
                                        /\ event.wheelDeltaX.value # 0
                                   THEN Def(-(event.wheelDeltaX.value \div WheelUnit))
                                   ELSE event.deltaX,
                        !.deltaY = Def(-(event.wheelDelta \div WheelUnit))]
        ELSE p1

\* setEvent after the assignment of pointerId
afterPointerId(p, event) ==
    LET world == localToWorld(p.pos.x, p.pos.y)
        p1 == [p EXCEPT !.isPrimary = IF event.isPrimary # "undefined"
                                      THEN event.isPrimary ELSE "true",
                        !.button = OrZero(event.button),
                        !.type = event.type,
                        !.gameScreenX = Def(p.pos.x),
                        !.gameScreenY = Def(p.pos.y),
                        !.gameWorldX = Def(world.x),
                        !.gameWorldY = Def(world.y)]
    IN  IF p1.isNormalized = "false"
        THEN resize(p1, event.width, event.height)
        ELSE IF event.radiusX.defined
        THEN resize(p1, event.radiusX.value * 2, event.radiusY.value * 2)
        ELSE resize(p1, 1, 1)

\* setEvent that takes a pointerId of 0 for one that is not given
setEvent_DefaultsOnZero(p, event, clientX, clientY, pointerId) ==
    LET p1 == beforePointerId(p, event, clientX, clientY)
        p2 == [p1 EXCEPT !.pointerId = Def(IF OrZero(pointerId) # 0
                                           THEN pointerId.value ELSE 1)]
    IN  afterPointerId(p2, event)

\* setEvent(event, clientX, clientY, pointerId)
setEvent(p, event, clientX, clientY, pointerId) ==
    LET p1 == beforePointerId(p, event, clientX, clientY)
        p2 == [p1 EXCEPT !.pointerId = IF pointerId.defined THEN pointerId ELSE Def(1)]
    IN  afterPointerId(p2, event)

\* the module before init() and before any call
Fresh ==
    /\ _state = NONE
    /\ _animFrameId = NONE
    /\ _isPaused = FALSE
    /\ _screenObject = [st \in {} |-> 0]
    /\ _fade = [color |-> "", duration |-> 0]
    /\ _onSwitchComplete = "null"
    /\ _extraArgs = NullArgs
    /\ _pauseTime = 0
    /\ handlers = {}
    /\ live = {}
    /\ pending = {}
    /\ deferred = <<>>
    /\ fadeIns = <<>>
    /\ now = 0
    /\ pc = "idle"

Init ==
    /\ Fresh
    /\ body = Returned(constructor(Parent, NoShapes, FALSE, 0))
    /\ pointer = Pointer(0, 0, 0, 0)


(* ------------------------------ actions ------------------------------- *)
\* the API calls are made by the game's code, inside a frame or between frames
Change(ids, vectors) ==
    \E state \in ids, extra \in vectors :
        /\ Commit(change(Cur, state, extra))
        /\ UNCHANGED <<now, pc>>

Stop(musics) ==
    \E music \in musics :
        /\ Commit(stop(Cur, music))
        /\ UNCHANGED <<now, pc>>

Pause(musics) ==
    \E music \in musics :
        /\ Commit(pause(Cur, music))
        /\ UNCHANGED <<now, pc>>

Restart(musics) ==
    \E music \in musics :
        /\ Commit(restart(Cur, music))
        /\ UNCHANGED <<now, pc>>

Resume(musics) ==
    \E music \in musics :
        /\ Commit(resume(Cur, music))
        /\ UNCHANGED <<now, pc>>

Set(ids, objects) ==
    \E state \in ids, so \in objects :
        /\ Commit(set(Cur, state, so))
        /\ UNCHANGED <<now, pc>>

SetTransition(ids) ==
    \E state \in ids, enable \in BOOLEAN :
        /\ Commit(setTransition(Cur, state, enable))
        /\ UNCHANGED <<now, pc>>

Transition ==
    \E effect \in {"fade", "none"}, color \in {"#000"}, duration \in Durations :
        /\ Commit(transition(Cur, effect, color, duration))
        /\ UNCHANGED <<now, pc>>

\* the host runs a requested frame: _renderFrame up to me.game.update
FrameUpdate ==
    /\ pc = "idle"
    /\ \E id \in pending :
        Commit(Log([Cur EXCEPT !.pending = @ \ {id}], Did("me.game.update")))
    /\ pc' = "update"
    /\ UNCHANGED now

\* _renderFrame: me.game.update has returned, me.game.draw is called
FrameDraw ==
    /\ pc = "update"
    /\ Commit(Log(Cur, Did("me.game.draw")))
    /\ pc' = "draw"
    /\ UNCHANGED now

\* _renderFrame: me.game.draw has returned, the next frame is requested
FrameEnd ==
    /\ pc = "draw"
    /\ Commit(_renderFrame(Cur))
    /\ pc' = "idle"
    /\ UNCHANGED now

\* a fade-in tween ends during me.game.update and calls its onComplete
FadeInComplete ==
    /\ pc = "update"
    /\ \E i \in 1..Len(fadeIns) :
        /\ \A j \in 1..(i - 1) : fadeIns[j].duration > fadeIns[i].duration
        /\ Commit(onFadeInComplete(
                    [Cur EXCEPT !.fadeIns =
                        SubSeq(@, 1, i - 1) \o SubSeq(@, i + 1, Len(@))],
                    fadeIns[i].task))
    /\ UNCHANGED <<now, pc>>

\* the host runs the oldest deferred task, between frames
RunDeferred ==
    /\ pc = "idle"
    /\ deferred # <<>>
    /\ LET task == Head(deferred) IN
        Commit(_switchState([Cur EXCEPT !.deferred = Tail(@)], task.state))
    /\ UNCHANGED <<now, pc>>

Tick ==
    /\ now < MaxTime
    /\ now' = now + 1
    /\ UNCHANGED <<_state, _animFrameId, _isPaused, _screenObject, _fade,
                   _onSwitchComplete, _extraArgs, _pauseTime, handlers, live,
                   pending, deferred, fadeIns, pc, body, pointer>>

(* ---------------------------- body actions ---------------------------- *)
stateVars == <<_state, _animFrameId, _isPaused, _screenObject, _fade,
               _onSwitchComplete, _extraArgs, _pauseTime, handlers, live,
               pending, deferred, fadeIns, now, pc>>

WithinBodyBounds(b) ==
    /\ Len(b.shapes) <= MaxShapes
    /\ Abs(b.vel.x) <= MaxSpeed /\ Abs(b.vel.y) <= MaxSpeed
    /\ Abs(b.ancestor.pos.x) <= MaxPos /\ Abs(b.ancestor.pos.y) <= MaxPos

\* the operation returns (or throws): its effects become the body
CommitBody(b) ==
    /\ WithinBodyBounds(b)
    /\ body' = Returned(b)

AddShape(shapes, batches) ==
    \E shape \in shapes, batchInsert \in batches :
        /\ CommitBody(addShape(body, shape, batchInsert))
        /\ UNCHANGED <<stateVars, pointer>>

AddShapesFromJSON ==
    \E json \in Docs, id \in ShapeNames, scale \in Scales :
        /\ CommitBody(addShapesFromJSON(body, json, id, scale))
        /\ UNCHANGED <<stateVars, pointer>>

\* the caller removes a shape it holds, one it got from getShape, or one
\* that is not in the list
RemoveShape ==
    \E shape \in HeldShapes \cup {Stranger}
                    \cup {body.shapes[i] : i \in 1..Len(body.shapes)} :
        /\ CommitBody(removeShape(body, shape))
        /\ UNCHANGED <<stateVars, pointer>>

RemoveShapeAt ==
    \E index \in (-1)..MaxShapes :
        /\ CommitBody(removeShapeAt(body, index))
        /\ UNCHANGED <<stateVars, pointer>>

\* the entity's update calls body.update() once per frame
Update ==
    \E tick \in Ticks :
        /\ CommitBody(update(body, tick))
        /\ UNCHANGED <<stateVars, pointer>>

\* the collision detection found the body overlapping another one
RespondToCollision ==
    \E overlap \in Overlaps :
        /\ CommitBody(respondToCollision(body, overlap))
        /\ UNCHANGED <<stateVars, pointer>>

\* the input handler hands a host event to the pointer
SetEvent ==
    \E event \in Events, clientX \in ClientCoords, clientY \in ClientCoords,
       pointerId \in PointerIds :
        /\ pointer' = setEvent(pointer, event, clientX, clientY, pointerId)
        /\ UNCHANGED <<stateVars, body>>

SetVelocity ==
    \E x \in Speeds, y \in Speeds :
        /\ CommitBody(setVelocity(body, x, y))
        /\ UNCHANGED <<stateVars, pointer>>

SetMaxVelocity ==
    \E x \in Speeds, y \in Speeds :
        /\ CommitBody(setMaxVelocity(body, x, y))
        /\ UNCHANGED <<stateVars, pointer>>

\* The state switch: registration, transitions, change, the fade and the
\* deferred switch, under the frames of the run loop. The switch reads
\* neither the pause flag nor the clock, and it stops and starts the loop
\* itself: stop, pause, restart, resume and the clock are left to SpecLoop.
Next ==
    \/ Set({LOADING}, {"soA", "notAScreen"})
    \/ Set({PLAY}, {"soB"})
    \/ SetTransition(States)
    \/ Transition
    \/ Change(States, ArgVectors)
    \/ FrameUpdate
    \/ FrameDraw
    \/ FrameEnd
    \/ FadeInComplete
    \/ RunDeferred

Spec == Init /\ [][Next]_vars

\* The run loop: both screens are registered (init and two set calls were
\* made), no fade is configured, and any of the callbacks may be a function.
InitLoop ==
    /\ _state = NONE
    /\ _animFrameId = NONE
    /\ _isPaused = FALSE
    /\ _screenObject = [st \in States |->
            [screen |-> IF st = LOADING THEN "soA" ELSE "soB", transition |-> TRUE]]
    /\ _fade = [color |-> "", duration |-> 0]
    /\ _onSwitchComplete = "null"
    /\ _extraArgs = NullArgs
    /\ _pauseTime = 0
    /\ handlers \in SUBSET Handlers
    /\ live = {}
    /\ pending = {}
    /\ deferred = <<>>
    /\ fadeIns = <<>>
    /\ now = 0
    /\ pc = "idle"
    /\ body = Returned(constructor(Parent, NoShapes, FALSE, 0))
    /\ pointer = Pointer(0, 0, 0, 0)

NextLoop ==
    \/ Change(States, {<<>>})
    \/ Stop(BOOLEAN)
    \/ Pause(BOOLEAN)
    \/ Restart(BOOLEAN)
    \/ Resume(BOOLEAN)
    \/ FrameUpdate
    \/ FrameDraw
    \/ FrameEnd
    \/ RunDeferred
    \/ Tick

SpecLoop == InitLoop /\ [][NextLoop]_vars

\* The shape list of a body: it is constructed with or without a list of
\* shapes and with or without a callback, then shapes are added and removed.
ShapeLists == {NoShapes, ShapeList(<<>>), ShapeList(<<RectR>>),
               ShapeList(<<PolyA, EllipseB>>)}

InitShapes ==
    /\ Fresh
    /\ \E shapes \in ShapeLists, onBodyUpdate \in BOOLEAN :
            body = Returned(constructor(Parent, shapes, onBodyUpdate, 0))
    /\ pointer = Pointer(0, 0, 0, 0)

NextShapes ==
    \/ AddShape(HeldShapes, {FALSE})
    \/ AddShapesFromJSON
    \/ RemoveShape
    \/ RemoveShapeAt

SpecShapes == InitShapes /\ [][NextShapes]_vars

\* The motion of a body: a body constructed with one shape under some
\* me.sys.gravity, whose public fields vel, friction, maxVel and bounce the
\* game has set, is updated once per frame and responds to collisions.
InitBody ==
    /\ Fresh
    /\ \E gravity \in Gravities, vx \in Vels, vy \in Vels,
          friction \in Frictions, maxVel \in MaxVels, bounce \in Bounces :
            body = [Returned(constructor(Parent, ShapeList(<<RectR>>), TRUE, gravity))
                        EXCEPT !.vel = Vector2d(vx, vy),
                               !.friction = friction,
                               !.maxVel = maxVel,
                               !.bounce = bounce]
    /\ pointer = Pointer(0, 0, 0, 0)

NextBody ==
    \/ Update
    \/ RespondToCollision

SpecBody == InitBody /\ [][NextBody]_vars

\* The speed settings of a body: a body constructed with one shape and no
\* gravity, to whose public field vel the game has given a value, gets its
\* default velocity and its velocity limit set and is updated once per frame.
InitVelocity ==
    /\ Fresh
    /\ \E vx \in Vels, vy \in Vels :
            body = [Returned(constructor(Parent, ShapeList(<<RectR>>), TRUE, 0))
                        EXCEPT !.vel = Vector2d(vx, vy)]
    /\ pointer = Pointer(0, 0, 0, 0)

NextVelocity ==
    \/ SetVelocity
    \/ SetMaxVelocity
    \/ Update

SpecVelocity == InitVelocity /\ [][NextVelocity]_vars

\* The screens: any screen object is registered under any state id, also
\* under the id of the current state and under both ids, and the states are
\* changed; the frames of the run loop call no screen's reset or destroy.
NextScreens ==
    \/ Set(States, Screens)
    \/ Change(States, {<<>>})
    \/ RunDeferred

SpecScreens == Init /\ [][NextScreens]_vars

\* The pointer: one pointer object is constructed and then set from one
\* host event after another.
InitPointer ==
    /\ Fresh
    /\ body = Returned(constructor(Parent, NoShapes, FALSE, 0))
    /\ pointer = Pointer(0, 0, 0, 0)

NextPointer == SetEvent

SpecPointer == InitPointer /\ [][NextPointer]_vars

(* ------------------------------ claims -------------------------------- *)
\* the names of the calls an operation made, in order
Names(s) == [i \in 1..Len(s.trace) |-> s.trace[i].f]
\* the positions in the trace of the calls named f
At(s, f) == {i \in 1..Len(s.trace) : s.trace[i].f = f}
\* the operation called no screen's destroy or reset
NoLifecycle(s) == At(s, "destroy") = {} /\ At(s, "reset") = {}
Registered(state) == state \in DOMAIN _screenObject
\* the host is about to run the oldest deferred task
SwitchDue == pc = "idle" /\ deferred # <<>>
\* what that task, _switchState bound to its state, does
Switched == _switchState([Cur EXCEPT !.deferred = Tail(@)], Head(deferred).state)

\* C1: change never switches synchronously. For every registered state that
\* is not the current one, when change returns no destroy and no reset has
\* been called and _state is still the old state.
C1_ChangeDefersSwitch ==
    \A state \in States, extra \in ArgVectors :
        (Registered(state) /\ state # _state) =>
            LET r == change(Cur, state, extra) IN
            /\ r.err = NoError
            /\ NoLifecycle(r)
            /\ r.state = _state
            /\ r.animFrameId = _animFrameId

\* C1 witness: a change has returned with a screen current, its task is
\* queued, and the current state is still the old one
C1_Witness ==
    /\ Registered(_state)
    /\ deferred # <<>>
    /\ Head(deferred).state # _state
    /\ change(Cur, Head(deferred).state, <<>>).state = _state

\* the steps of the switch that the claims name
SwitchSteps ==
    {"_stopRunLoop", "destroy", "_state", "reset", "_startRunLoop",
     "_onSwitchComplete", "me.game.repaint"}
IsSwitchStep(f) == f \in SwitchSteps

\* C2: every deferred switch runs its steps in this order: stop the run
\* loop, destroy the outgoing screen (skipped when no screen is current), set
\* _state to the target, reset the new screen, restart the run loop (after
\* which isRunning() is true and a frame is requested), call the
\* switch-complete callback if one is set, force a repaint.
C2_SwitchOrder ==
    SwitchDue =>
        LET r == Switched
            target == Head(deferred).state
            outgoing == IF Registered(_state) THEN <<"destroy">> ELSE <<>>
            complete == IF _onSwitchComplete # "null"
                        THEN <<"_onSwitchComplete">> ELSE <<>>
        IN  /\ SelectSeq(Names(r), IsSwitchStep) =
                   <<"_stopRunLoop">> \o outgoing
                   \o <<"_state", "reset", "_startRunLoop">>
                   \o complete \o <<"me.game.repaint">>
            /\ \A i \in At(r, "destroy") :
                   r.trace[i].what = _screenObject[_state].screen
            /\ \A i \in At(r, "_state") : r.trace[i].n = target
            /\ \A i \in At(r, "reset") :
                   r.trace[i].what = _screenObject[target].screen
            /\ \A i \in At(r, "requestAnimationFrame") :
                   \A j \in At(r, "_startRunLoop") \cup At(r, "reset") : i > j
            /\ isRunning(r)
            /\ r.animFrameId \in r.pending

\* C2 witness: a switch is due that has an outgoing screen to destroy and a
\* switch-complete callback to call, and it leaves the loop running
C2_Witness ==
    /\ SwitchDue
    /\ Registered(_state)
    /\ _onSwitchComplete # "null"
    /\ Len(SelectSeq(Names(Switched), IsSwitchStep)) = 7
    /\ isRunning(Switched)

\* what each call the game's code can make from inside a frame would do
InFrameCalls ==
    {change(Cur, state, extra) : state \in States, extra \in ArgVectors}
    \cup {set(Cur, state, so) : state \in States, so \in Objects}
    \cup {setTransition(Cur, state, enable) : state \in States, enable \in BOOLEAN}
    \cup {transition(Cur, "fade", "#000", duration) : duration \in Durations}
    \cup {stop(Cur, music) : music \in BOOLEAN}
    \cup {pause(Cur, music) : music \in BOOLEAN}
    \cup {restart(Cur, music) : music \in BOOLEAN}
    \cup {resume(Cur, music) : music \in BOOLEAN}
    \cup {onFadeInComplete(Cur, fadeIns[i].task) : i \in 1..Len(fadeIns)}
    \cup {_renderFrame(Cur)}

\* C3: while a frame callback is executing no screen's destroy or reset is
\* invoked: no call made from inside the frame invokes one (change and the
\* fade's completion included), and no deferred switch runs before the frame
\* has returned.
C3_NoLifecycleInFrame ==
    pc # "idle" =>
        /\ \A r \in InFrameCalls : NoLifecycle(r) /\ r.state = _state
        /\ ~ENABLED RunDeferred

\* C3 witness: a frame is executing while a direct change and a faded change
\* are both waiting for their switch, with a screen current
C3_Witness ==
    /\ pc # "idle"
    /\ Registered(_state)
    /\ deferred # <<>>
    /\ fadeIns # <<>>

\* C4: change to the current state does nothing: nothing is called, nothing
\* is thrown, no switch is deferred, no fade is started, and _extraArgs, the
\* run loop and the pause flag are as before.
C4_ChangeToCurrentIsNoOp ==
    \A state \in States, extra \in ArgVectors :
        (Registered(state) /\ isCurrent(Cur, state)) =>
            change(Cur, state, extra) = Cur

\* C4 witness: a screen is current, arguments are stored, a fade is
\* configured and enabled for it, and change to it with no arguments
\* returns the state as it was
C4_Witness ==
    /\ Registered(_state)
    /\ ~_extraArgs.isNull
    /\ _fade.duration # 0
    /\ _screenObject[_state].transition
    /\ change(Cur, _state, <<>>) = Cur

\* C5: change to a state that was never registered throws an error naming
\* the state and changes nothing: _state, _extraArgs, the run loop, the
\* deferred switches and the fades are as before and nothing was called.
C5_ChangeUnregisteredThrows ==
    \A state \in States, extra \in ArgVectors :
        ~Registered(state) =>
            LET r == change(Cur, state, extra) IN
            /\ r.err = [name |-> "me.Error",
                        text |-> "Undefined ScreenObject for state",
                        subject |-> ToString(state)]
            /\ [r EXCEPT !.err = NoError] = Cur

\* C5 witness: a state is unregistered while arguments are stored, a switch
\* is deferred and the loop runs, and change to it throws
C5_Witness ==
    \E state \in States :
        /\ ~Registered(state)
        /\ ~_extraArgs.isNull
        /\ deferred # <<>>
        /\ isRunning(Cur)
        /\ change(Cur, state, <<>>).err # NoError

\* C6: once the deferred task of a change to X has run, isCurrent(X) is true
\* and current() returns the screen registered for X.
C6_SwitchMakesCurrent ==
    SwitchDue =>
        LET X == Head(deferred).state IN
        /\ Registered(X)
        /\ isCurrent(Switched, X)
        /\ current(Switched) = _screenObject[X].screen
        /\ \A other \in States \ {X} : ~isCurrent(Switched, other)

\* C6 witness: from the initial state -1 a switch is due, and it makes its
\* state current
C6_Witness ==
    /\ SwitchDue
    /\ _state = NONE
    /\ isCurrent(Switched, Head(deferred).state)
    /\ current(Switched) \in Screens

\* C7: the reset of the new screen receives exactly the extra arguments of
\* the change call that requested the switch.
C7_ResetGetsRequestedArgs ==
    SwitchDue =>
        \A i \in At(Switched, "reset") :
            Switched.trace[i].args = Head(deferred).requestedArgs

\* the fade condition of change for a target state
Faded(state) == _fade.duration # 0 /\ _screenObject[state].transition

\* C8: a faded change (a fade duration is set and the target has transitions
\* enabled) starts the fade to the configured color and defers nothing; its
\* switch is deferred when that fade completes; and the fade back is started
\* by the switch, after the new screen's reset and the loop's restart and
\* before the repaint.
C8_FadeThenSwitchThenFadeBack ==
    /\ \A state \in States, extra \in ArgVectors :
        (Registered(state) /\ state # _state /\ Faded(state)) =>
            LET r == change(Cur, state, extra) IN
            /\ r.trace = <<Call("fadeIn", _fade.color, <<>>, _fade.duration)>>
            /\ r.deferred = deferred
            /\ r.fadeIns = Append(fadeIns,
                   [duration |-> _fade.duration, task |-> SwitchTask(state, extra, TRUE)])
    /\ \A i \in 1..Len(fadeIns) :
            LET r == onFadeInComplete(Cur, fadeIns[i].task) IN
            /\ r.deferred = Append(deferred, fadeIns[i].task)
            /\ r.trace = <<>>
    /\ (SwitchDue /\ Head(deferred).viaFade) =>
            LET r == Switched IN
            /\ Cardinality(At(r, "fadeOut")) = 1
            /\ \A i \in At(r, "fadeOut") :
                /\ \A j \in At(r, "reset") \cup At(r, "requestAnimationFrame") : j < i
                /\ \A j \in At(r, "me.game.repaint") : i < j
                /\ r.state = Head(deferred).state
                /\ isRunning(r)

\* C8 witness: the fade of a faded change has completed, its switch is due,
\* and the switch starts the fade back
C8_Witness ==
    /\ SwitchDue
    /\ Head(deferred).viaFade
    /\ Registered(_state)
    /\ At(Switched, "fadeOut") # {}

\* C9: a change made while no fade duration is set or while the target has
\* transitions disabled defers the switch directly, and no viewport fade is
\* started for it: none by change, none by its switch.
C9_DirectChangeStartsNoFade ==
    /\ \A state \in States, extra \in ArgVectors :
        (Registered(state) /\ state # _state /\ ~Faded(state)) =>
            LET r == change(Cur, state, extra) IN
            /\ r.trace = <<>>
            /\ r.fadeIns = fadeIns
            /\ r.deferred = Append(deferred, SwitchTask(state, extra, FALSE))
    /\ (SwitchDue /\ ~Head(deferred).viaFade) =>
            At(Switched, "fadeOut") = {} /\ At(Switched, "fadeIn") = {}

\* C10: stop() does nothing (nothing changed, published or called) while the
\* current state is LOADING or the loop is not running; otherwise it cancels
\* the scheduled frame, so that isRunning() is false, records the time of the
\* stop in _pauseTime, publishes STATE_STOP once and calls onStop once if it
\* is a function.
C10_Stop ==
    \A music \in BOOLEAN :
        LET r == stop(Cur, music) IN
        IF _state = LOADING \/ ~isRunning(Cur)
        THEN r = Cur
        ELSE /\ ~isRunning(r)
             /\ r.pending = pending \ {_animFrameId}
             /\ r.pauseTime = now
             /\ Cardinality(At(r, "publish")) = 1
             /\ \A i \in At(r, "publish") : r.trace[i].what = "STATE_STOP"
             /\ Cardinality(At(r, "onStop")) = IF "onStop" \in handlers THEN 1 ELSE 0
             /\ r.state = _state
             /\ r.isPaused = _isPaused
             /\ r.err = NoError

\* C10 witness: the PLAY screen runs with a frame scheduled and onStop a
\* function, at an instant that _pauseTime does not hold, and stop cancels
\* the frame
C10_Witness ==
    /\ _state = PLAY
    /\ _animFrameId \in pending
    /\ "onStop" \in handlers
    /\ _pauseTime # now
    /\ stop(Cur, TRUE).pending = {}
    /\ stop(Cur, TRUE).pauseTime = now

\* C11: pause() does nothing while the current state is LOADING or the game
\* is already paused; otherwise it sets the pause flag, publishes STATE_PAUSE
\* once and leaves the run loop as it was: the frame requests pending with
\* the host, _animFrameId and so isRunning() are unchanged.
C11_Pause ==
    \A music \in BOOLEAN :
        LET r == pause(Cur, music) IN
        IF _state = LOADING \/ isPaused(Cur)
        THEN r = Cur
        ELSE /\ isPaused(r)
             /\ Cardinality(At(r, "publish")) = 1
             /\ \A i \in At(r, "publish") : r.trace[i].what = "STATE_PAUSE"
             /\ r.pending = pending
             /\ r.animFrameId = _animFrameId
             /\ isRunning(r) = isRunning(Cur)
             /\ At(r, "_stopRunLoop") = {} /\ At(r, "_startRunLoop") = {}

\* C11 witness: the PLAY screen runs with its frame scheduled, the game is
\* not paused, and pause sets the flag with the frame still scheduled
C11_Witness ==
    /\ _state = PLAY
    /\ ~_isPaused
    /\ _animFrameId \in pending
    /\ isPaused(pause(Cur, FALSE))
    /\ _animFrameId \in pause(Cur, FALSE).pending

\* C12: resume() while the game is not paused, and restart() while the run
\* loop is running, change nothing (pause flag, run loop, _pauseTime),
\* publish no event and call no callback.
C12_ResumeRestartNoOp ==
    \A music \in BOOLEAN :
        /\ ~isPaused(Cur) => resume(Cur, music) = Cur
        /\ isRunning(Cur) => restart(Cur, music) = Cur

\* C12 witness: the loop runs unpaused with onRestart and onResume functions,
\* at an instant later than the one _pauseTime holds, with music to resume
C12_Witness ==
    /\ isRunning(Cur)
    /\ ~isPaused(Cur)
    /\ {"onRestart", "onResume"} \subseteq handlers
    /\ now > _pauseTime
    /\ restart(Cur, TRUE).trace = <<>>
    /\ resume(Cur, TRUE).trace = <<>>

\* C13: observed between frame callbacks, isRunning() is true if and only if
\* a frame callback is pending with the host scheduler.
C13_RunningIffFramePending ==
    pc = "idle" => (isRunning(Cur) <=> pending # {})

\* C14: a frame callback runs me.game.update, then me.game.draw, then
\* requests the next frame if the loop is still running; and a frame
\* callback starts only while the loop is running: once stop() has set
\* _animFrameId to -1, no frame starts until restart() or a state switch
\* has started the loop again.
C14_FramesOnlyWhileRunning ==
    [][ /\ (pc = "idle" /\ pc' = "update") => isRunning(Cur)
        /\ (pc = "idle" /\ pc' = "update") => pending' \subseteq pending
        /\ (pc = "draw" /\ pc' = "idle" /\ isRunning(Cur)) =>
                (_animFrameId' \in pending' /\ pending \subseteq pending')
        /\ (pc = "draw" /\ pc' = "idle" /\ ~isRunning(Cur)) =>
                pending' = pending ]_vars

\* C15: set(state, so) throws and leaves the registry as it was when so is
\* not a screen object; otherwise it throws nothing and registers so under
\* state with transitions enabled, whatever the state's entry was before,
\* and leaves the other states' entries as they were.
C15_Set ==
    \A state \in States, so \in Objects :
        LET r == set(Cur, state, so) IN
        IF ~IsScreenObject(so)
        THEN /\ r.err # NoError
             /\ r.screenObject = _screenObject
        ELSE /\ r.err = NoError
             /\ DOMAIN r.screenObject = DOMAIN _screenObject \cup {state}
             /\ r.screenObject[state] = [screen |-> so, transition |-> TRUE]
             /\ \A st \in DOMAIN _screenObject \ {state} :
                    r.screenObject[st] = _screenObject[st]

\* C15 witness: LOADING is registered with transitions disabled by
\* setTransition; set enables them again, and set with an object that is no
\* screen object throws
C15_Witness ==
    /\ Registered(LOADING)
    /\ ~_screenObject[LOADING].transition
    /\ set(Cur, LOADING, "soA").screenObject[LOADING].transition
    /\ set(Cur, LOADING, "notAScreen").err # NoError

\* the body's own rectangle
BodyRect == Rect(body.pos.x, body.pos.y, body.width, body.height)
\* the smallest rectangle that holds the bounds of every shape of a
\* non-empty list, whatever their order
BoundingBoxOf(shapes) ==
    LET bs == {getBounds(shapes[i]) : i \in 1..Len(shapes)}
        x1 == CHOOSE v \in {r.pos.x : r \in bs} : \A r \in bs : v <= r.pos.x
        y1 == CHOOSE v \in {r.pos.y : r \in bs} : \A r \in bs : v <= r.pos.y
        x2 == CHOOSE v \in {r.pos.x + r.width : r \in bs} :
                    \A r \in bs : v >= r.pos.x + r.width
        y2 == CHOOSE v \in {r.pos.y + r.height : r \in bs} :
                    \A r \in bs : v >= r.pos.y + r.height
    IN  Rect(x1, y1, x2 - x1, y2 - y1)

\* C16 as stated: after construction and after every addShape,
\* addShapesFromJSON, removeShape and removeShapeAt, the body's rectangle is
\* the union of the bounds of the shapes in its list, in whatever order they
\* were added; the union of no shapes is empty, of width and height 0.
C16_RectIsUnionOfAllShapes ==
    IF body.shapes = <<>>
    THEN body.width = 0 /\ body.height = 0
    ELSE BodyRect = BoundingBoxOf(body.shapes)

\* C16 as amended: whenever the shape list is not empty, the body's
\* rectangle is the union of the bounds of the shapes in the list, in
\* whatever order they were added.
C16_RectIsUnionOfShapesIfAny ==
    body.shapes # <<>> => BodyRect = BoundingBoxOf(body.shapes)

\* C16 witness: three shapes are in the list and the body's rectangle is
\* larger than the bounds of each of them
C16_Witness ==
    /\ Len(body.shapes) = MaxShapes
    /\ \A i \in 1..Len(body.shapes) : getBounds(body.shapes[i]) # BodyRect
    /\ BodyRect = BoundingBoxOf(body.shapes)

Zero == Vector2d(0, 0)
\* most update() calls a velocity within the bounds is followed over
Horizon == 4 * MaxSpeed + 4

\* within n more update() calls the velocity is 0 on both axes, and a
\* further update() leaves it 0
RECURSIVE settles(_, _, _)
settles(b, tick, n) ==
    IF b.vel = Zero THEN update(b, tick).vel = Zero
    ELSE IF n = 0 THEN FALSE
    ELSE settles(update(b, tick), tick, n - 1)

\* C17 as stated: a body with nonzero friction (on either axis) and no
\* gravity, from any velocity, reaches the velocity 0 on each axis under
\* repeated update() calls, and the velocity then stays 0.
C17_FrictionStopsBody ==
    (body.gravity = 0 /\ (body.friction.x # 0 \/ body.friction.y # 0)) =>
        \A tick \in Ticks : settles(body, tick, Horizon)

\* after one update() the speed on an axis with friction f has dropped by
\* f * tick at least, or to 0
Slowed(v, w, f, tick) == Abs(w) <= Max(0, Abs(v) - f * tick)

\* C17 as amended: a body with friction greater than 0 on both axes, a
\* maxVel that is not negative and no gravity, from any velocity, loses
\* friction * tick of its speed on each axis with every update(), or all of
\* it; so repeated update() calls reach the velocity 0 on each axis, and
\* the velocity then stays 0.
C17_PositiveFrictionStopsBody ==
    (/\ body.gravity = 0
     /\ body.friction.x > 0 /\ body.friction.y > 0
     /\ body.maxVel.x >= 0 /\ body.maxVel.y >= 0) =>
        \A tick \in Ticks :
            LET r == update(body, tick) IN
            /\ Slowed(body.vel.x, r.vel.x, body.friction.x, tick)
            /\ Slowed(body.vel.y, r.vel.y, body.friction.y, tick)
            /\ settles(body, tick, Max(Abs(body.vel.x), Abs(body.vel.y)))

\* C17 witness: a body without gravity has moved against a friction of 1
\* on both axes; it still moves, and one more update() stops it
C17_Witness ==
    /\ body.gravity = 0
    /\ body.friction = Vector2d(1, 1)
    /\ body.maxVel.x >= 0 /\ body.maxVel.y >= 0
    /\ body.vel = Vector2d(1, -1)
    /\ body.ancestor.pos = Vector2d(1, -1)
    /\ update(body, 1).vel = Zero
    /\ settles(body, 1, 1)

\* the new velocity w on an axis is 0, or has the sign of the old velocity
\* v and the magnitude of v less f * tick
Braked(v, w, f, tick) ==
    w = 0 \/ (sign(w) = sign(v) /\ Abs(w) = Abs(v) - f * tick)

\* C18 as stated: one applyFriction step never pushes the velocity past
\* zero: on each axis the new velocity is 0, or has the sign of the old one
\* and its magnitude less friction * tick.
C18_FrictionNeverPassesZero ==
    \A tick \in Ticks :
        LET r == applyFriction(body, tick) IN
        /\ Braked(body.vel.x, r.vel.x, body.friction.x, tick)
        /\ Braked(body.vel.y, r.vel.y, body.friction.y, tick)

\* C18 as amended: on each axis where the friction is not negative, one
\* applyFriction step gives a velocity that is 0, or has the sign of the old
\* one and its magnitude less friction * tick.
C18_FrictionNotNegativeNeverPassesZero ==
    \A tick \in Ticks :
        LET r == applyFriction(body, tick) IN
        /\ body.friction.x >= 0 =>
                Braked(body.vel.x, r.vel.x, body.friction.x, tick)
        /\ body.friction.y >= 0 =>
                Braked(body.vel.y, r.vel.y, body.friction.y, tick)

\* C18 witness: against a friction of 1 on both axes, a step of two ticks
\* stops the velocity 1 on x, which it would reverse, and a step of one tick
\* brakes the velocity -2 on y to -1
C18_Witness ==
    /\ body.friction = Vector2d(1, 1)
    /\ body.vel = Vector2d(1, -2)
    /\ body.ancestor.pos # Zero
    /\ applyFriction(body, 2).vel.x = 0
    /\ applyFriction(body, 1).vel.y = -1

\* C19 as stated: for every body with gravity > 0, falling is true after an
\* update(): after the first one and after every later one, as long as
\* respondToCollision is not called with a vertical overlap.
C19_FallsUnderGravity ==
    body.gravity > 0 => \A tick \in Ticks : update(body, tick).falling

\* C19 as amended: for every body with gravity > 0, a friction and a maxVel
\* that are not negative on the y axis, and a vertical velocity that is not
\* negative (as after construction), falling is true after an update() and
\* the vertical velocity is again not negative; so falling is true after
\* every later update() as well, until respondToCollision is called with a
\* vertical overlap or the fields are set otherwise.
C19_FallsUnderGravityUnlessRising ==
    (/\ body.gravity > 0
     /\ body.friction.y >= 0
     /\ body.maxVel.y >= 0
     /\ body.vel.y >= 0) =>
        \A tick \in Ticks :
            LET r == update(body, tick) IN
            /\ r.falling
            /\ r.vel.y >= 0
            /\ r.gravity = body.gravity
            /\ r.friction = body.friction
            /\ r.maxVel = body.maxVel

\* C19 witness: a body under gravity 1 that was at rest has been updated
\* and is falling; the next update() finds it falling faster
C19_Witness ==
    /\ body.gravity = 1
    /\ body.friction = Zero
    /\ body.maxVel.y = DefaultMaxVel
    /\ body.falling
    /\ body.vel.y = 1
    /\ body.ancestor.pos.y = 1
    /\ update(body, 1).falling
    /\ update(body, 1).vel.y = 2

\* C20: after every update() of a body whose maxVel is not negative on
\* either axis, the velocity on each axis is within [-maxVel, maxVel], and
\* a component that is 0 when the cap step is reached is 0 after it.
C20_VelocityWithinMaxVel ==
    (body.maxVel.x >= 0 /\ body.maxVel.y >= 0) =>
        \A tick \in Ticks :
            LET u == uncapped(body, tick)
                r == update(body, tick)
            IN  /\ -body.maxVel.x <= r.vel.x /\ r.vel.x <= body.maxVel.x
                /\ -body.maxVel.y <= r.vel.y /\ r.vel.y <= body.maxVel.y
                /\ u.vel.x = 0 => r.vel.x = 0
                /\ u.vel.y = 0 => r.vel.y = 0
                /\ r.maxVel = body.maxVel

\* C20 witness: a body with maxVel 1 on both axes moves faster than that
\* upwards and not at all sideways; update() caps the one and leaves the
\* other 0
C20_Witness ==
    /\ body.maxVel = Vector2d(1, 1)
    /\ body.gravity = -1
    /\ body.friction = Zero
    /\ body.vel = Vector2d(0, -1)
    /\ body.ancestor.pos # Zero
    /\ uncapped(body, 1).vel = Vector2d(0, -2)
    /\ update(body, 1).vel = Vector2d(0, -1)

\* C21: respondToCollision with a purely horizontal overlap (overlap.y = 0,
\* overlap.x not 0) leaves falling, jumping and the vertical velocity as
\* they were.
C21_HorizontalOverlapKeepsVertical ==
    \A overlap \in Overlaps :
        (overlap.y = 0 /\ overlap.x # 0) =>
            LET r == respondToCollision(body, overlap) IN
            /\ r.falling = body.falling
            /\ r.jumping = body.jumping
            /\ r.vel.y = body.vel.y

\* C21 witness: a falling body that moves downwards and sideways is pushed
\* back to the left; it is stopped sideways and still falls
C21_Witness ==
    /\ body.falling
    /\ body.gravity = 1
    /\ body.bounce = 0
    /\ body.vel = Vector2d(1, 2)
    /\ body.ancestor.pos # Zero
    /\ respondToCollision(body, Vector2d(1, 0)).vel = Vector2d(0, 2)
    /\ respondToCollision(body, Vector2d(1, 0)).falling
    /\ respondToCollision(body, Vector2d(1, 0)).ancestor.pos.x = body.ancestor.pos.x - 1

\* C22: respondToCollision with bounce = 0 sets the velocity, on each axis
\* where the overlap is not 0, to the integer nearest to velocity minus
\* overlap (for whole numbers, the difference itself), negative differences
\* included; on an axis with overlap 0 the velocity is unchanged.
C22_VelocityIsNearestInteger ==
    body.bounce = 0 =>
        \A overlap \in Overlaps :
            LET r == respondToCollision(body, overlap) IN
            /\ r.vel.x = IF overlap.x # 0 THEN body.vel.x - overlap.x ELSE body.vel.x
            /\ r.vel.y = IF overlap.y # 0 THEN body.vel.y - overlap.y ELSE body.vel.y

\* C23: setVelocity(x, y) overwrites the acceleration on an axis only when
\* the argument for that axis is not 0: a 0 argument leaves the acceleration
\* on that axis as it was; and the velocity itself is not changed.
C23_SetVelocityKeepsAccelOnZero ==
    \A x \in Speeds, y \in Speeds :
        LET r == setVelocity(body, x, y) IN
        /\ r.accel.x = IF x # 0 THEN x ELSE body.accel.x
        /\ r.accel.y = IF y # 0 THEN y ELSE body.accel.y
        /\ r.vel = body.vel

\* C23 witness: a moving body whose acceleration was set to (2, -1) gets
\* setVelocity(0, 2): the acceleration becomes (2, 2)
C23_Witness ==
    /\ body.accel = Vector2d(2, -1)
    /\ body.vel = Vector2d(1, -1)
    /\ setVelocity(body, 0, 2).accel = Vector2d(2, 2)
    /\ setVelocity(body, 0, 2).vel = Vector2d(1, -1)

\* C24: after setVelocity(x, y) the max velocity on each axis is the
\* magnitude of the argument, |x| and |y|, negative arguments included, and
\* on an axis passed as 0 the limit is not zeroed; so a later update() keeps
\* a velocity that is the acceleration the body now has.
C24_MaxVelIsMagnitude ==
    \A x \in Speeds, y \in Speeds :
        LET r == setVelocity(body, x, y)
            moving == [r EXCEPT !.vel = r.accel]
        IN  /\ x # 0 => r.maxVel.x = Abs(x)
            /\ y # 0 => r.maxVel.y = Abs(y)
            /\ x = 0 => r.maxVel.x # 0
            /\ y = 0 => r.maxVel.y # 0
            /\ \A tick \in Ticks : update(moving, tick).vel = r.accel

\* the shape object is an entry of the list
InList(shapes, shape) == \E i \in 1..Len(shapes) : shapes[i].id = shape.id

\* C25: removeShape(shape) for a shape that is not in the body's shape list
\* leaves the list as it was (same shapes, same order), still recomputes
\* the bounds (a body that has an onBodyUpdate callback calls it once) and
\* returns the unchanged number of shapes.
C25_RemoveAbsentShape ==
    \A shape \in HeldShapes \cup {Stranger} :
        ~InList(body.shapes, shape) =>
            LET r == removeShape(body, shape) IN
            /\ r.shapes = body.shapes
            /\ r.ret = Len(body.shapes)
            /\ r.err = NoError
            /\ Cardinality(At(r, "onBodyUpdate")) = IF body.onBodyUpdate THEN 1 ELSE 0
            /\ r.shapes # <<>> =>
                    Rect(r.pos.x, r.pos.y, r.width, r.height) = BoundingBoxOf(r.shapes)

\* C25 witness: a body with a callback holds the polygon and the ellipse;
\* removeShape of a shape that was never added keeps both and returns 2
C25_Witness ==
    /\ body.onBodyUpdate
    /\ Len(body.shapes) = 2
    /\ body.shapes[1] = PolyA
    /\ body.shapes[2] = EllipseB
    /\ removeShape(body, Stranger).shapes = <<PolyA, EllipseB>>
    /\ removeShape(body, Stranger).ret = 2
    /\ Names(removeShape(body, Stranger)) = <<"onBodyUpdate">>

\* the identifier is found in the document, whichever its format
Identified(json, id) ==
    IF json.isRigid
    THEN \E i \in 1..Len(json.rigidBodies) : json.rigidBodies[i].name = id
    ELSE \E i \in 1..Len(json.byId) : json.byId[i].name = id

\* C26: addShapesFromJSON with an id found in neither format fails with an
\* error that names the missing identifier and tells which format (the flat
\* map or rigidBodies) was being read, so that the two errors differ, and
\* leaves the body's shape list and bounds as they were.
C26_MissingIdErrorTellsFormat ==
    \A id \in ShapeNames, scale \in Scales :
        (~Identified(DocFlat, id) /\ ~Identified(DocRigid, id)) =>
            LET flat == addShapesFromJSON(body, DocFlat, id, scale)
                rigid == addShapesFromJSON(body, DocRigid, id, scale)
            IN  /\ flat.err # NoError /\ flat.err.subject = id
                /\ rigid.err # NoError /\ rigid.err.subject = id
                /\ flat.err # rigid.err
                /\ \A r \in {flat, rigid} :
                        /\ r.shapes = body.shapes
                        /\ Rect(r.pos.x, r.pos.y, r.width, r.height) = BodyRect

\* C27: setEvent keeps the pointerId it is given whenever one is given, the
\* value 0 included, and uses 1 only when the pointerId argument is
\* undefined.
C27_PointerIdKeptUnlessUndefined ==
    \A event \in Events, clientX \in ClientCoords, clientY \in ClientCoords,
       pointerId \in PointerIds :
        setEvent(pointer, event, clientX, clientY, pointerId).pointerId =
            IF pointerId = undefined THEN Def(1) ELSE pointerId

\* C27 witness: the pointer was set from a touch with pointerId 0 and holds
\* 0; set from a mouse event without pointerId it will hold 1
C27_Witness ==
    /\ pointer.event = TouchStart
    /\ pointer.pointerId = Def(0)
    /\ setEvent(pointer, TouchStart, 2, 0, Def(0)).pointerId = Def(0)
    /\ setEvent(pointer, MouseDown, 2, 0, undefined).pointerId = Def(1)

\* the list without its entry at the index (counted from 0); the list
\* itself when it has no such entry
WithoutIndex(shapes, index) ==
    IF index + 1 \in 1..Len(shapes)
    THEN SubSeq(shapes, 1, index) \o SubSeq(shapes, index + 2, Len(shapes))
    ELSE shapes

\* C28: removeShapeAt(index) removes exactly the list entry at that index
\* and keeps all other entries in order, for every shape list, lists in
\* which the same shape object is at more than one index included; an index
\* outside the list removes nothing.
C28_RemoveShapeAtRemovesThatEntry ==
    \A index \in (-1)..MaxShapes :
        removeShapeAt(body, index).shapes = WithoutIndex(body.shapes, index)

\* C29: at most one frame request is pending with the host scheduler at any
\* time, whatever the sequence of stop, restart, pause, resume, change and
\* deferred-switch steps, stop() followed by restart() inside an executing
\* frame included.
C29_AtMostOneFrameRequest ==
    Cardinality(pending) <= 1

\* the states that can be current once every pending fade-in has completed
\* and every deferred switch has run, in any order the host can take
RECURSIVE Settled(_)
Settled(s) ==
    IF s.deferred = <<>> /\ s.fadeIns = <<>>
    THEN {s.state}
    ELSE LET ran == IF s.deferred # <<>>
                    THEN Settled(_switchState([s EXCEPT !.deferred = Tail(@)],
                                              Head(s.deferred).state))
                    ELSE {}
             due == {i \in 1..Len(s.fadeIns) :
                        \A j \in 1..(i - 1) :
                            s.fadeIns[j].duration > s.fadeIns[i].duration}
             faded == UNION {Settled(onFadeInComplete(
                                [s EXCEPT !.fadeIns =
                                    SubSeq(@, 1, i - 1) \o SubSeq(@, i + 1, Len(@))],
                                s.fadeIns[i].task)) : i \in due}
         IN  ran \cup faded

\* C30: once every pending fade and deferred switch has completed, the
\* current state is the state named by the most recent successful change
\* call, whatever mix of states with and without transitions the earlier
\* change calls named.
C30_LastChangeWins ==
    \A state \in States, extra \in ArgVectors :
        LET r == change(Cur, state, extra) IN
        r.err = NoError => Settled(r) = {state}

\* C31: screen lifecycle calls are balanced. At any time at most one screen
\* object is reset and not destroyed, and destroy() is only called on a
\* screen object that is reset and not destroyed since, whatever the
\* sequence of set (re-registering the current state id with another
\* screen included), change and deferred switches.
C31_LifecycleBalanced ==
    /\ Cardinality(live) <= 1
    /\ SwitchDue =>
            \A i \in At(Switched, "destroy") : Switched.trace[i].what \in live

\* the operation published the event or called the handler
Acted(r, event, handler) ==
    \/ \E i \in At(r, "publish") : r.trace[i].what = event
    \/ At(r, handler) # {}

\* C32: whenever resume() acts (publishes STATE_RESUME or calls onResume),
\* isPaused() is false when it returns, and whenever restart() acts
\* (publishes STATE_RESTART or calls onRestart), isRunning() is true when it
\* returns, in every reachable state, the uninitialized state -1 included.
C32_ResumeAndRestartTakeEffect ==
    \A music \in BOOLEAN :
        /\ Acted(resume(Cur, music), "STATE_RESUME", "onResume") =>
                ~isPaused(resume(Cur, music))
        /\ Acted(restart(Cur, music), "STATE_RESTART", "onRestart") =>
                isRunning(restart(Cur, music))

\* the operation has returned and d units of time pass before the next call
Later(s, d) == [s EXCEPT !.now = @ + d, !.trace = <<>>]
\* the durations the operation published with the event
Durations_Published(r, event) ==
    {r.trace[i].n : i \in {j \in At(r, "publish") : r.trace[j].what = event}}
\* the times that pass between two calls
Delays == 0..1

\* C33: the duration published with STATE_RESUME is the time elapsed since
\* the pause() call that set the pause flag, and the duration published with
\* STATE_RESTART is the time elapsed since the stop() call that stopped the
\* loop, also when a stop() comes between pause() and resume() and when a
\* pause() comes between stop() and restart().
C33_DurationSinceOwnCall ==
    \A d1 \in Delays, d2 \in Delays :
        LET paused == pause(Cur, FALSE)
            resumed == resume(Later(stop(Later(paused, d1), FALSE), d2), FALSE)
            stopped == stop(Cur, FALSE)
            restarted == restart(Later(pause(Later(stopped, d1), FALSE), d2), FALSE)
        IN  /\ (Acted(paused, "STATE_PAUSE", "onPause")
                    /\ Acted(resumed, "STATE_RESUME", "onResume")) =>
                    Durations_Published(resumed, "STATE_RESUME") = {d1 + d2}
            /\ (Acted(stopped, "STATE_STOP", "onStop")
                    /\ Acted(restarted, "STATE_RESTART", "onRestart")) =>
                    Durations_Published(restarted, "STATE_RESTART") = {d1 + d2}

\* C34: a body's falling and jumping flags are never both true, after any
\* sequence of update() and respondToCollision() calls on a constructed
\* body, whatever its gravity (positive, zero or negative) and whatever the
\* overlaps.
C34_NotFallingAndJumping ==
    ~(body.falling /\ body.jumping)

\* C35: the pointer's fields after setEvent depend only on the arguments of
\* that call and on the coordinate transforms, not on earlier events: the
\* pointer, whatever events it was set from before, and a pointer that was
\* never set end with equal fields after the same setEvent call (the wheel
\* delta fields after an event that is no wheel event among them).
C35_SetEventForgetsEarlierEvents ==
    \A event \in Events, clientX \in ClientCoords, clientY \in ClientCoords,
       pointerId \in PointerIds :
        setEvent(pointer, event, clientX, clientY, pointerId) =
            setEvent(Pointer(0, 0, 0, 0), event, clientX, clientY, pointerId)

====
